---- MODULE Spec2Model ----
(* The IMAP mailbox layer of bmclient (package email, src/unnamed/part_000)  *)
(* over a store folder (src/store/db_test.go), as a state machine.           *)
EXTENDS Integers, Sequences, FiniteSets, TLC

\* Highest id a folder allocates in a run (inserts are guarded by it).
MaxId == 3
\* Number of out-of-band folder mutations (by agents other than the mailbox)
\* in a run.
MaxOob == 1
\* Highest uid of the lists and lookups GetSequenceNumber is applied to on
\* its own.
MaxUid == 4

VARIABLES
    mbox,   \* the folder under the mailbox: [nextIndex, messages]
    box,    \* the cached fields of Mailbox: uids, numRecent, numUnseen, nextUID, lastUID
    ret,    \* what the last completed operation was and what it returned
    oob,    \* out-of-band folder mutations so far
    pc,     \* per thread: its position in the operation it runs
    rw,     \* the mailbox's embedded RWMutex
    db      \* the store: its file and whether a handle on it is open

vars == <<mbox, box, ret, oob, pc, rw, db>>

----------------------------------------------------------------------------
(* Values *)

Max(S) == CHOOSE x \in S : \A y \in S : y <= x

FlagRecent == "Recent"
FlagSeen == "Seen"
\* The flag sets messages are given in a run.
FlagSets == {{}, {FlagRecent}, {FlagSeen}}
\* Ack bytes: 0 is the empty byte string (no ack), 1 a non-empty one.
Acks == {0, 1}
\* Instants: 0 is one a text timestamp holds exactly, 1 one that carries
\* more than the timestamp keeps.
Dates == {0, 1}

\* A stored payload: nil, bytes that do not decode, or an encoded Entry.
NilBytes == [kind |-> "nil", flags |-> {}, date |-> 0, ack |-> 0,
             ackReceived |-> FALSE, enc |-> 0]
Junk == [kind |-> "junk", flags |-> {}, date |-> 0, ack |-> 0,
         ackReceived |-> FALSE, enc |-> 0]

\* The nil *Bitmessage.
NilMsg == [nil |-> TRUE, uid |-> 0, seq |-> 0, flags |-> {}, date |-> 0,
           ack |-> 0, ackReceived |-> FALSE, enc |-> 0, ser |-> FALSE]

\* A Bitmessage in memory. ser: whether the message has every field its
\* encoding requires, so that Serialize succeeds.
Bitmessage(uid, seq, flags, date, ack, ackReceived, enc, ser) ==
    [nil |-> FALSE, uid |-> uid, seq |-> seq, flags |-> flags, date |-> date,
     ack |-> ack, ackReceived |-> ackReceived, enc |-> enc, ser |-> ser]

\* The received date as the text timestamp of an Entry, read back.
FormatDate(d) == d - (d % 2)

\* Bitmessage.Serialize: the Entry record; uid, sequence number and mailbox
\* are not part of it. NilBytes stands for the error return.
Serialize(m) ==
    IF ~m.ser THEN NilBytes
    ELSE [kind |-> "entry", flags |-> m.flags, date |-> FormatDate(m.date),
          ack |-> m.ack, ackReceived |-> m.ackReceived, enc |-> m.enc]

\* DecodeBitmessage: nil (with an error) for bytes that are no Entry.
DecodeBitmessage(p) ==
    IF p.kind # "entry" THEN NilMsg
    ELSE Bitmessage(0, 0, p.flags, p.date, p.ack, p.ackReceived, p.enc, TRUE)

----------------------------------------------------------------------------
(* The folder *)

EmptyFolder == [nextIndex |-> 1, messages |-> <<>>]

Present(f) == DOMAIN f.messages

NextID(f) == f.nextIndex

\* The highest present id below nextIndex, 0 if none.
LastID(f) ==
    LET S == {id \in Present(f) : id < f.nextIndex}
    IN  IF S = {} THEN 0 ELSE Max(S)

\* The highest present id with the suffix; ErrNotFound if there is none.
LastIDBySuffix(f, suffix) ==
    LET S == {id \in Present(f) : f.messages[id].suffix = suffix}
    IN  IF S = {} THEN [err |-> "ErrNotFound", id |-> 0]
        ELSE [err |-> "", id |-> Max(S)]

\* Reading a Go map: the zero value for a key that is not in it.
MapGet(m, key) == IF key \in DOMAIN m THEN m[key] ELSE 0

\* The loop of testFolder.LastID from id on.
RECURSIVE LastIDLoop(_, _, _, _)
LastIDLoop(f, id, lastId, lastBySuffix) ==
    IF id >= f.nextIndex
    THEN [lastId |-> lastId, lastBySuffix |-> lastBySuffix]
    ELSE IF id \notin Present(f)
    THEN LastIDLoop(f, id + 1, lastId, lastBySuffix)
    ELSE LET sfx == f.messages[id].suffix
         IN  LastIDLoop(f, id + 1, id,
                 [k \in DOMAIN lastBySuffix \cup {sfx} |->
                     IF k = sfx THEN id ELSE lastBySuffix[k]])

\* LastID that reports, by suffix, the highest entry of the folder only.
LastIDsOfHighest(f) ==
    LET l == LastID(f)
    IN  [lastId |-> l,
         lastBySuffix |-> IF l = 0 THEN <<>>
                          ELSE [k \in {f.messages[l].suffix} |-> l]]

\* testFolder.LastID: the last id and the last id by suffix.
LastIDs(f) == LastIDLoop(f, 1, 0, <<>>)

\* InsertNewMessage that stores under the lowest id that has no entry.
InsertNewMessageLowestFree(f, msg, suffix) ==
    IF msg.kind = "nil" THEN [err |-> "NilMessage", id |-> 0, f |-> f]
    ELSE LET id == CHOOSE i \in 1..f.nextIndex :
                       /\ i \notin Present(f)
                       /\ \A j \in 1..(i - 1) : j \in Present(f)
         IN  [err |-> "", id |-> id,
              f |-> [nextIndex |-> IF id = f.nextIndex THEN id + 1
                                   ELSE f.nextIndex,
                     messages |-> [i \in Present(f) \cup {id} |->
                         IF i = id THEN [payload |-> msg, suffix |-> suffix]
                         ELSE f.messages[i]]]]

InsertNewMessage(f, msg, suffix) ==
    IF msg.kind = "nil" THEN [err |-> "NilMessage", id |-> 0, f |-> f]
    ELSE [err |-> "", id |-> f.nextIndex,
          f |-> [nextIndex |-> f.nextIndex + 1,
                 messages |-> [i \in Present(f) \cup {f.nextIndex} |->
                     IF i = f.nextIndex THEN [payload |-> msg, suffix |-> suffix]
                     ELSE f.messages[i]]]]

\* InsertMessage that looks at the payload before the id.
InsertMessageNilFirst(f, id, msg, suffix) ==
    IF msg.kind = "nil" THEN [err |-> "NilMessage", f |-> f]
    ELSE IF id = 0 \/ id >= f.nextIndex THEN [err |-> "ErrInvalidID", f |-> f]
    ELSE IF id \in Present(f) THEN [err |-> "ErrDuplicateID", f |-> f]
    ELSE [err |-> "",
          f |-> [f EXCEPT !.messages = [i \in Present(f) \cup {id} |->
                     IF i = id THEN [payload |-> msg, suffix |-> suffix]
                     ELSE f.messages[i]]]]

\* InsertMessage that stores over an entry that is there.
InsertMessageOverwriting(f, id, msg, suffix) ==
    IF id = 0 \/ id >= f.nextIndex THEN [err |-> "ErrInvalidID", f |-> f]
    ELSE IF msg.kind = "nil" THEN [err |-> "NilMessage", f |-> f]
    ELSE [err |-> "",
          f |-> [f EXCEPT !.messages = [i \in Present(f) \cup {id} |->
                     IF i = id THEN [payload |-> msg, suffix |-> suffix]
                     ELSE f.messages[i]]]]

InsertMessage(f, id, msg, suffix) ==
    IF id = 0 \/ id >= f.nextIndex THEN [err |-> "ErrInvalidID", f |-> f]
    ELSE IF msg.kind = "nil" THEN [err |-> "NilMessage", f |-> f]
    ELSE IF id \in Present(f) THEN [err |-> "ErrDuplicateID", f |-> f]
    ELSE [err |-> "",
          f |-> [f EXCEPT !.messages = [i \in Present(f) \cup {id} |->
                     IF i = id THEN [payload |-> msg, suffix |-> suffix]
                     ELSE f.messages[i]]]]

\* GetMessage that reports an id of 0 or beyond the ids allocated as
\* invalid.
GetMessageInvalidID(f, id) ==
    IF id = 0 \/ id >= f.nextIndex
    THEN [err |-> "ErrInvalidID", suffix |-> 0, payload |-> NilBytes]
    ELSE IF id \notin Present(f)
    THEN [err |-> "ErrNotFound", suffix |-> 0, payload |-> NilBytes]
    ELSE [err |-> "", suffix |-> f.messages[id].suffix,
          payload |-> f.messages[id].payload]

GetMessage(f, id) ==
    IF id = 0 \/ id >= f.nextIndex
    THEN [err |-> "ErrNotFound", suffix |-> 0, payload |-> NilBytes]
    ELSE IF id \notin Present(f)
    THEN [err |-> "ErrNotFound", suffix |-> 0, payload |-> NilBytes]
    ELSE [err |-> "", suffix |-> f.messages[id].suffix,
          payload |-> f.messages[id].payload]

\* DeleteMessage that gives the id back when it deletes the highest one.
DeleteMessageShrinking(f, id) ==
    IF id = 0 \/ id >= f.nextIndex THEN [err |-> "ErrInvalidID", f |-> f]
    ELSE IF id \notin Present(f) THEN [err |-> "ErrNotFound", f |-> f]
    ELSE [err |-> "",
          f |-> [nextIndex |-> IF id = f.nextIndex - 1 THEN id ELSE f.nextIndex,
                 messages |-> [i \in Present(f) \ {id} |-> f.messages[i]]]]

DeleteMessage(f, id) ==
    IF id = 0 \/ id >= f.nextIndex THEN [err |-> "ErrInvalidID", f |-> f]
    ELSE IF id \notin Present(f) THEN [err |-> "ErrNotFound", f |-> f]
    ELSE [err |-> "",
          f |-> [f EXCEPT !.messages = [i \in Present(f) \ {id} |-> f.messages[i]]]]

\* store.Mailbox.InsertMessage(msg, id, suffix): id 0 asks for the next id,
\* any other id for that id.
MboxInsertMessage(f, msg, id, suffix) ==
    IF id = 0 THEN InsertNewMessage(f, msg, suffix)
    ELSE LET r == InsertMessage(f, id, msg, suffix)
         IN  [err |-> r.err, id |-> IF r.err = "" THEN id ELSE 0, f |-> r.f]

RECURSIVE Ascending(_)
Ascending(S) ==
    IF S = {} THEN <<>>
    ELSE LET m == Max(S) IN Append(Ascending(S \ {m}), m)

\* store.Mailbox.ForEachMessage: the ids it visits, in the order it visits
\* them; a bound of 0 is no bound.
ForEachMessage(f, lowID, highID, suffix) ==
    Ascending({id \in Present(f) :
        /\ f.messages[id].suffix = suffix
        /\ (lowID = 0 \/ id >= lowID)
        /\ (highID = 0 \/ id <= highID)})

\* The orders a Go map with the keys S is ranged over: every one.
RECURSIVE MapOrders(_)
MapOrders(S) ==
    IF S = {} THEN {<<>>}
    ELSE UNION {{<<x>> \o p : p \in MapOrders(S \ {x})} : x \in S}

\* testFolder.ForEachMessage: the outcomes of a call whose visitor returns
\* an error at its call number stop (0: at none). visited lists the ids the
\* visitor is called with, in the order of the calls.
TestFolderForEachMessage(f, lowID, highID, suffix, stop) ==
    {IF stop \in 1..Len(p)
     THEN [err |-> "VisitorError", visited |-> SubSeq(p, 1, stop)]
     ELSE [err |-> "", visited |-> p] : p \in MapOrders(Present(f))}

----------------------------------------------------------------------------
(* The store *)

\* The passphrases stores are opened with.
Passphrases == {"password", "new_password"}
\* The names and the values of counters.
CounterNames == {0, 1}
CounterValues == {0, 1, 34}

\* The key a passphrase derives.
Key(pass) == <<"key", pass>>

\* A path with no store in it, and the store before it is opened.
NoFile == [created |-> FALSE, key |-> Key(""), counters |-> <<>>]
ClosedStore == [file |-> NoFile, open |-> FALSE]

\* store.Open: creates the store under the passphrase's key when the path
\* holds none; otherwise the content has to decrypt under the key.
Open(d, pass) ==
    IF ~d.file.created
    THEN [err |-> "",
          db |-> [file |-> [created |-> TRUE, key |-> Key(pass),
                            counters |-> <<>>],
                  open |-> TRUE]]
    ELSE IF d.file.key # Key(pass)
    THEN [err |-> "ErrDecryptionFailed", db |-> d]
    ELSE [err |-> "", db |-> [d EXCEPT !.open = TRUE]]

Close(d) == [d EXCEPT !.open = FALSE]

\* ChangePassphrase that leaves the store under the key it had.
ChangePassphraseKept(d, pass) == d

ChangePassphrase(d, pass) == [d EXCEPT !.file.key = Key(pass)]

\* GetCounter that has 0 for a counter that was never set.
GetCounterZero(d, name) ==
    IF name \in DOMAIN d.file.counters THEN d.file.counters[name] ELSE 0

GetCounter(d, name) ==
    IF name \in DOMAIN d.file.counters THEN d.file.counters[name] ELSE 1

SetCounter(d, name, value) ==
    [d EXCEPT !.file.counters =
        [n \in DOMAIN @ \cup {name} |-> IF n = name THEN value ELSE @[n]]]

\* The store the mailbox's folder is in, open.
OpenStore == Open(ClosedStore, "password").db

----------------------------------------------------------------------------
(* The mailbox *)

RECURSIVE GetSequenceNumberLoop(_, _, _)
GetSequenceNumberLoop(uids, uid, i) ==
    IF i > Len(uids) THEN 0
    ELSE IF uids[i] > uid THEN i
    ELSE IF uid = uids[i] THEN i
    ELSE GetSequenceNumberLoop(uids, uid, i + 1)

\* GetSequenceNumber without the branch for an element above the uid: a uid
\* that is not in the list gets 0.
GetSequenceNumberExact(uids, uid) ==
    IF \E k \in 1..Len(uids) : uids[k] = uid
    THEN CHOOSE k \in 1..Len(uids) : uids[k] = uid
    ELSE 0

GetSequenceNumber(uids, uid) ==
    IF Len(uids) = 0 THEN 0 ELSE GetSequenceNumberLoop(uids, uid, 1)

EmptyBox == [uids |-> <<>>, numRecent |-> 0, numUnseen |-> 0,
             nextUID |-> 0, lastUID |-> 0]

\* The visitor of Refresh over the ids still to visit: it stops with an
\* error at the first entry that does not decode.
RECURSIVE RefreshScan(_, _, _)
RefreshScan(f, ids, acc) ==
    IF ids = <<>> THEN acc
    ELSE LET id == Head(ids)
             entry == DecodeBitmessage(f.messages[id].payload)
         IN  IF entry.nil THEN [acc EXCEPT !.err = "DecodeFailed"]
             ELSE RefreshScan(f, Tail(ids),
                    [err |-> "",
                     recent |-> acc.recent +
                         (IF FlagRecent \in entry.flags THEN 1 ELSE 0),
                     unseen |-> acc.unseen +
                         (IF FlagSeen \notin entry.flags THEN 1 ELSE 0),
                     list |-> Append(acc.list, id)])

\* Refresh that appends the scanned ids to the list it already holds instead
\* of building the list anew.
RefreshAppending(f, b) ==
    LET nextUID == NextID(f)
        last == LastIDBySuffix(f, 2)
        lastUID == IF last.err = "ErrNotFound" THEN nextUID ELSE last.id
        b1 == [b EXCEPT !.nextUID = nextUID, !.lastUID = lastUID]
        scan == RefreshScan(f, ForEachMessage(f, 0, 0, 2),
                    [err |-> "", recent |-> 0, unseen |-> 0, list |-> <<>>])
    IN  IF scan.err # "" THEN [err |-> scan.err, box |-> b1]
        ELSE [err |-> "",
              box |-> [b1 EXCEPT !.uids = b.uids \o scan.list,
                                 !.numRecent = scan.recent,
                                 !.numUnseen = scan.unseen]]

\* Refresh that takes lastUID from LastIDBySuffix whatever it reports.
RefreshNoFallback(f, b) ==
    LET nextUID == NextID(f)
        last == LastIDBySuffix(f, 2)
        b1 == [b EXCEPT !.nextUID = nextUID, !.lastUID = last.id]
        scan == RefreshScan(f, ForEachMessage(f, 0, 0, 2),
                    [err |-> "", recent |-> 0, unseen |-> 0, list |-> <<>>])
    IN  IF scan.err # "" THEN [err |-> scan.err, box |-> b1]
        ELSE [err |-> "",
              box |-> [b1 EXCEPT !.uids = scan.list,
                                 !.numRecent = scan.recent,
                                 !.numUnseen = scan.unseen]]

Refresh(f, b) ==
    LET nextUID == NextID(f)
        last == LastIDBySuffix(f, 2)
        lastUID == IF last.err = "ErrNotFound" THEN nextUID ELSE last.id
        b1 == [b EXCEPT !.nextUID = nextUID, !.lastUID = lastUID]
        scan == RefreshScan(f, ForEachMessage(f, 0, 0, 2),
                    [err |-> "", recent |-> 0, unseen |-> 0, list |-> <<>>])
    IN  IF scan.err # "" THEN [err |-> scan.err, box |-> b1]
        ELSE [err |-> "",
              box |-> [b1 EXCEPT !.uids = scan.list,
                                 !.numRecent = scan.recent,
                                 !.numUnseen = scan.unseen]]

Messages(b) == Len(b.uids)

decodeBitmessageForImap(uid, seqno, msg) ==
    LET b == DecodeBitmessage(msg)
    IN  IF b.nil THEN NilMsg ELSE [b EXCEPT !.uid = uid, !.seq = seqno]

bmsgByUID(f, b, uid) ==
    LET g == GetMessage(f, uid)
    IN  IF g.err # "" THEN NilMsg
        ELSE IF g.suffix # 2 THEN NilMsg
        ELSE decodeBitmessageForImap(uid, GetSequenceNumber(b.uids, uid), g.payload)

BitmessageByUID(f, b, uid) == bmsgByUID(f, b, uid)

BitmessageBySequenceNumber(f, b, seqno) ==
    IF seqno < 1 \/ seqno > Messages(b) THEN NilMsg
    ELSE bmsgByUID(f, b, b.uids[seqno])

\* The visitor of getRange over the ids still to visit: i counts the
\* messages appended so far.
RECURSIVE getRangeScan(_, _, _, _, _)
getRangeScan(f, ids, startSequence, i, bitmessages) ==
    IF ids = <<>> THEN bitmessages
    ELSE LET id == Head(ids)
             bm == decodeBitmessageForImap(id, startSequence + i,
                                           f.messages[id].payload)
         IN  IF bm.nil
             THEN getRangeScan(f, Tail(ids), startSequence, i, bitmessages)
             ELSE getRangeScan(f, Tail(ids), startSequence, i + 1,
                               Append(bitmessages, bm))

\* getRange that gives every message of the range the sequence number of
\* the first.
getRangeSameNumber(f, b, startUID, endUID, startSequence, endSequence) ==
    LET ids == ForEachMessage(f, startUID, endUID, 2)
        decoded == [k \in 1..Len(ids) |->
            decodeBitmessageForImap(ids[k], startSequence, f.messages[ids[k]].payload)]
    IN  SelectSeq(decoded, LAMBDA bm : ~bm.nil)

getRange(f, b, startUID, endUID, startSequence, endSequence) ==
    getRangeScan(f, ForEachMessage(f, startUID, endUID, 2), startSequence, 0, <<>>)

\* getSince that scans the whole folder.
getSinceAll(f, b, startUID, startSequence) ==
    getRange(f, b, 0, 0, startSequence, Messages(b))

getSince(f, b, startUID, startSequence) ==
    getRange(f, b, startUID, 0, startSequence, Messages(b))

\* BitmessagesByUIDRange that ignores the upper bound.
BitmessagesByUIDRangeOpen(f, b, start, end) ==
    getSince(f, b, start, GetSequenceNumber(b.uids, start))

BitmessagesByUIDRange(f, b, start, end) ==
    LET startSequence == GetSequenceNumber(b.uids, start)
        e == GetSequenceNumber(b.uids, end)
        endSequence == IF e = 0 THEN Messages(b) ELSE e
    IN  IF startSequence > endSequence THEN <<>>
        ELSE getRange(f, b, start, end, startSequence, endSequence)

BitmessagesSinceUID(f, b, start) ==
    getSince(f, b, start, GetSequenceNumber(b.uids, start))

LastBitmessage(f, b) ==
    IF Messages(b) = 0 THEN NilMsg
    ELSE bmsgByUID(f, b, b.uids[Len(b.uids)])

\* A slice of messages, or the run-time panic of an index outside the uid
\* list.
Slice(msgs) == [panic |-> FALSE, msgs |-> msgs]
Panic == [panic |-> TRUE, msgs |-> <<>>]

\* box.uids[k], the index counted from 0 as the code counts it.
InRange(b, k) == k >= 0 /\ k < Len(b.uids)
At0(b, k) == b.uids[k + 1]

BitmessagesBySequenceRange(f, b, start, end) ==
    IF start < 1 \/ start > Messages(b) \/ end < 1 \/ end > Messages(b)
       \/ end < start
    THEN Slice(<<>>)
    ELSE IF ~InRange(b, start) \/ ~InRange(b, end) THEN Panic
    ELSE Slice(getRange(f, b, At0(b, start), At0(b, end), start, end))

BitmessagesSinceSequenceNumber(f, b, start) ==
    IF start < 1 \/ start > Messages(b) THEN Slice(<<>>)
    ELSE IF ~InRange(b, start) THEN Panic
    ELSE Slice(getSince(f, b, At0(b, start), start))

\* types.SequenceNumber: a value, "*" (the last) or nil (none given).
SeqValue(n) == [kind |-> "value", value |-> n]
SeqLast == [kind |-> "last", value |-> 0]
SeqNil == [kind |-> "nil", value |-> 0]
\* types.SequenceRange
SeqRange(min, max) == [Min |-> min, Max |-> max]

\* The loop of BitmessageSetByUID over the ranges still to resolve; a
\* range whose bound has no value ends it.
RECURSIVE BitmessageSetByUIDLoop(_, _, _, _)
BitmessageSetByUIDLoop(f, b, set, msgs) ==
    IF set = <<>> THEN msgs
    ELSE LET msgRange == Head(set)
             start == msgRange.Min.value
         IN  IF msgRange.Min.kind = "last"
             THEN BitmessageSetByUIDLoop(f, b, Tail(set),
                      Append(msgs, LastBitmessage(f, b)))
             ELSE IF msgRange.Min.kind # "value" THEN msgs
             ELSE IF msgRange.Max.kind = "nil"
             THEN BitmessageSetByUIDLoop(f, b, Tail(set),
                      Append(msgs, BitmessageByUID(f, b, start)))
             ELSE IF msgRange.Max.kind = "last"
             THEN BitmessageSetByUIDLoop(f, b, Tail(set),
                      msgs \o BitmessagesSinceUID(f, b, start))
             ELSE BitmessageSetByUIDLoop(f, b, Tail(set),
                      msgs \o BitmessagesByUIDRange(f, b, start,
                                                    msgRange.Max.value))

BitmessageSetByUID(f, b, set) ==
    IF Messages(b) = 0 THEN <<>>
    ELSE BitmessageSetByUIDLoop(f, b, set, <<>>)

\* The loop of BitmessageSetBySequenceNumber: start is the uid at the
\* position the range begins at, and is what the sequence-number lookups
\* are then called with.
RECURSIVE BitmessageSetBySequenceNumberLoop(_, _, _, _)
BitmessageSetBySequenceNumberLoop(f, b, set, msgs) ==
    IF set = <<>> THEN Slice(msgs)
    ELSE LET msgRange == Head(set)
             startIndex == msgRange.Min.value
             start == b.uids[startIndex]
             since == BitmessagesSinceSequenceNumber(f, b, start)
             range == BitmessagesBySequenceRange(f, b, start, msgRange.Max.value)
         IN  IF msgRange.Min.kind = "last"
             THEN BitmessageSetBySequenceNumberLoop(f, b, Tail(set),
                      Append(msgs, LastBitmessage(f, b)))
             ELSE IF msgRange.Min.kind # "value" THEN Slice(msgs)
             ELSE IF startIndex < 1 \/ startIndex > Messages(b) THEN Slice(msgs)
             ELSE IF msgRange.Max.kind = "nil"
             THEN BitmessageSetBySequenceNumberLoop(f, b, Tail(set),
                      Append(msgs, BitmessageBySequenceNumber(f, b, start)))
             ELSE IF msgRange.Max.kind = "last"
             THEN IF since.panic THEN Panic
                  ELSE BitmessageSetBySequenceNumberLoop(f, b, Tail(set),
                           msgs \o since.msgs)
             ELSE IF range.panic THEN Panic
                  ELSE BitmessageSetBySequenceNumberLoop(f, b, Tail(set),
                           msgs \o range.msgs)

BitmessageSetBySequenceNumber(f, b, set) ==
    IF Messages(b) = 0 THEN Slice(<<>>)
    ELSE BitmessageSetBySequenceNumberLoop(f, b, set, <<>>)

\* SaveBitmessage that deletes the stored version before it compares the
\* dates.
SaveBitmessageDeleteFirst(f, b, msg) ==
    LET previous == BitmessageByUID(f, b, msg.uid)
        del == DeleteMessage(f, msg.uid)
        f1 == IF msg.uid # 0 THEN del.f ELSE f
        encode == Serialize(msg)
        ins == MboxInsertMessage(f1, encode, msg.uid, msg.enc)
        rf == Refresh(ins.f, b)
    IN  IF msg.uid # 0 /\ previous.nil
        THEN [err |-> "Invalid sequence number", f |-> f, box |-> b, uid |-> msg.uid]
        ELSE IF msg.uid # 0 /\ del.err # ""
        THEN [err |-> del.err, f |-> f, box |-> b, uid |-> msg.uid]
        ELSE IF msg.uid # 0 /\ previous.date # msg.date
        THEN [err |-> "Cannot change date received", f |-> f1, box |-> b,
              uid |-> msg.uid]
        ELSE IF encode.kind = "nil"
        THEN [err |-> "SerializeFailed", f |-> f1, box |-> b, uid |-> msg.uid]
        ELSE IF ins.err # ""
        THEN [err |-> ins.err, f |-> f1, box |-> b, uid |-> msg.uid]
        ELSE [err |-> rf.err, f |-> ins.f, box |-> rf.box, uid |-> ins.id]

\* msg.ImapData.UID after the call is in the result's uid; the folder and the
\* cache after it in f and box.
SaveBitmessage(f, b, msg) ==
    LET previous == BitmessageByUID(f, b, msg.uid)
        del == DeleteMessage(f, msg.uid)
        f1 == IF msg.uid # 0 THEN del.f ELSE f
        encode == Serialize(msg)
        ins == MboxInsertMessage(f1, encode, msg.uid, msg.enc)
        rf == Refresh(ins.f, b)
    IN  IF msg.uid # 0 /\ previous.nil
        THEN [err |-> "Invalid sequence number", f |-> f, box |-> b, uid |-> msg.uid]
        ELSE IF msg.uid # 0 /\ previous.uid # msg.uid
        THEN [err |-> "Invalid uid", f |-> f, box |-> b, uid |-> msg.uid]
        ELSE IF msg.uid # 0 /\ previous.date # msg.date
        THEN [err |-> "Cannot change date received", f |-> f, box |-> b,
              uid |-> msg.uid]
        ELSE IF msg.uid # 0 /\ del.err # ""
        THEN [err |-> del.err, f |-> f, box |-> b, uid |-> msg.uid]
        ELSE IF encode.kind = "nil"
        THEN [err |-> "SerializeFailed", f |-> f1, box |-> b, uid |-> msg.uid]
        ELSE IF ins.err # ""
        THEN [err |-> ins.err, f |-> f1, box |-> b, uid |-> msg.uid]
        ELSE [err |-> rf.err, f |-> ins.f, box |-> rf.box, uid |-> ins.id]

\* imapData.UID after the call is in the result's uid.
AddNew(f, b, bmsg, flags, now) ==
    LET stamped == [bmsg EXCEPT !.uid = 0, !.seq = Messages(b),
                                !.flags = flags, !.date = now]
        msg == Serialize(stamped)
        ins == MboxInsertMessage(f, msg, 0, bmsg.enc)
        rf == Refresh(ins.f, b)
    IN  IF bmsg.enc # 2
        THEN [err |-> "Unsupported encoding", f |-> f, box |-> b, uid |-> 0]
        ELSE IF msg.kind = "nil"
        THEN [err |-> "SerializeFailed", f |-> f, box |-> b, uid |-> 0]
        ELSE IF ins.err # ""
        THEN [err |-> ins.err, f |-> f, box |-> b, uid |-> 0]
        ELSE [err |-> rf.err, f |-> ins.f, box |-> rf.box, uid |-> ins.id]

\* The visitor of ReceiveAck over the ids still to visit: the first entry
\* whose ack equals the bytes, NilMsg if the scan ends or stops without one.
RECURSIVE ReceiveAckScan(_, _, _)
ReceiveAckScan(f, ids, ack) ==
    IF ids = <<>> THEN NilMsg
    ELSE LET entry == DecodeBitmessage(f.messages[Head(ids)].payload)
         IN  IF entry.nil THEN NilMsg
             ELSE IF entry.ack = ack THEN entry
             ELSE ReceiveAckScan(f, Tail(ids), ack)

ReceiveAck(f, b, ack) ==
    LET found == ReceiveAckScan(f, ForEachMessage(f, 0, 0, 2), ack)
        ackMatch == [found EXCEPT !.ackReceived = TRUE]
        sv == SaveBitmessage(f, b, ackMatch)
    IN  IF found.nil THEN [match |-> NilMsg, f |-> f, box |-> b]
        ELSE [match |-> [ackMatch EXCEPT !.uid = sv.uid], f |-> sv.f, box |-> sv.box]

----------------------------------------------------------------------------------------------------------------------------------------------------------------------------------------------------------------
(* The sequential specifications: whole operations, one at a time *)

\* The messages handed to AddNew in Spec: encoding 2, no ack bytes.
AddNewInputs == {Bitmessage(0, 0, {}, 0, 0, FALSE, 2, TRUE)}

\* The messages handed to AddNew in SpecAck: with and without ack bytes.
AckAddNewInputs == {Bitmessage(0, 0, {}, 0, a, FALSE, 2, TRUE) : a \in Acks}

\* The messages handed to SaveBitmessage: any uid (0: none yet) and flags
\* with the date of a stored entry; one with another date, one of another
\* encoding and, for a stored uid, one that does not serialize.
SaveInputs ==
    {Bitmessage(u, 0, fl, 0, 0, FALSE, 2, TRUE) : u \in 0..MaxId, fl \in FlagSets}
    \cup {Bitmessage(u, 0, {}, 1, 0, FALSE, 2, TRUE) : u \in 1..MaxId}
    \cup {Bitmessage(u, 0, {}, 0, 0, FALSE, 1, TRUE) : u \in 1..MaxId}
    \cup {Bitmessage(u, 0, {}, 0, 0, FALSE, 2, FALSE) : u \in 1..MaxId}

\* The ack bytes handed to ReceiveAck.
AckInputs == {1}

Ret(op, err, match) == [op |-> op, err |-> err, match |-> match]

Init ==
    /\ mbox = EmptyFolder
    /\ box = Refresh(EmptyFolder, EmptyBox).box
    /\ ret = Ret("NewMailbox", "", FALSE)
    /\ oob = 0
    /\ pc = <<>>
    /\ rw = <<>>
    /\ db = OpenStore

DoRefresh ==
    LET r == Refresh(mbox, box)
    IN  /\ box' = r.box
        /\ ret' = Ret("Refresh", r.err, FALSE)
        /\ UNCHANGED <<mbox, oob, pc, rw, db>>

DoAddNew(inputs, flagsets) ==
    \E bmsg \in inputs, flags \in flagsets, now \in Dates :
        LET r == AddNew(mbox, box, bmsg, flags, now)
        IN  /\ r.f.nextIndex <= MaxId + 1
            /\ mbox' = r.f
            /\ box' = r.box
            /\ ret' = Ret("AddNew", r.err, FALSE)
            /\ UNCHANGED <<oob, pc, rw, db>>

DoSaveBitmessage ==
    \E msg \in SaveInputs :
        LET r == SaveBitmessage(mbox, box, msg)
        IN  /\ r.f.nextIndex <= MaxId + 1
            /\ mbox' = r.f
            /\ box' = r.box
            /\ ret' = Ret("SaveBitmessage", r.err, FALSE)
            /\ UNCHANGED <<oob, pc, rw, db>>

DoReceiveAck ==
    \E ack \in AckInputs :
        LET r == ReceiveAck(mbox, box, ack)
        IN  /\ r.f.nextIndex <= MaxId + 1
            /\ mbox' = r.f
            /\ box' = r.box
            /\ ret' = Ret("ReceiveAck", "", ~r.match.nil)
            /\ UNCHANGED <<oob, pc, rw, db>>

\* Another agent stores an entry in the folder without going through the
\* mailbox: bytes that are no Entry, under suffix 1 or 2.
OobInsert ==
    \E suffix \in {1, 2} :
        LET r == InsertNewMessage(mbox, Junk, suffix)
        IN  /\ oob < MaxOob
            /\ mbox.nextIndex <= MaxId
            /\ mbox' = r.f
            /\ oob' = oob + 1
            /\ ret' = Ret("OobInsert", r.err, FALSE)
            /\ UNCHANGED <<box, pc, rw, db>>

\* Another agent deletes an entry of the folder.
OobDelete ==
    \E id \in Present(mbox) :
        LET r == DeleteMessage(mbox, id)
        IN  /\ oob < MaxOob
            /\ mbox' = r.f
            /\ oob' = oob + 1
            /\ ret' = Ret("OobDelete", r.err, FALSE)
            /\ UNCHANGED <<box, pc, rw, db>>

Next ==
    \/ DoRefresh
    \/ DoAddNew(AddNewInputs, FlagSets)
    \/ DoSaveBitmessage
    \/ OobInsert
    \/ OobDelete

Spec == Init /\ [][Next]_vars

NextAck ==
    \/ DoRefresh
    \/ DoAddNew(AckAddNewInputs, {{FlagRecent}})
    \/ DoReceiveAck
    \/ OobInsert
    \/ OobDelete

SpecAck == Init /\ [][NextAck]_vars

----------------------------------------------------------------------------
(* The folder on its own: the operations of the Folder interface, called   *)
(* as the interface test calls them                                         *)

\* Highest id the folder allocates in a run of the folder's operations.
MaxFolderId == 3
\* The suffixes entries are stored under (the interface test uses 1, 2, 3).
MaxSuffix == 3
FolderSuffixes == 1..MaxSuffix
\* Payloads: nil and some bytes.
FolderPayloads == {NilBytes, Junk}
\* The ids the operations are called with.
FolderIds == 0..(MaxFolderId + 1)

FolderRet(op, err, id) == [op |-> op, err |-> err, id |-> id]

InitFolder ==
    /\ mbox = EmptyFolder
    /\ box = EmptyBox
    /\ ret = FolderRet("newTestFolder", "", 0)
    /\ oob = 0
    /\ pc = <<>>
    /\ rw = <<>>
    /\ db = ClosedStore

FolderInsertNewMessage ==
    \E msg \in FolderPayloads, suffix \in FolderSuffixes :
        LET r == InsertNewMessage(mbox, msg, suffix)
        IN  /\ r.f.nextIndex <= MaxFolderId + 1
            /\ mbox' = r.f
            /\ ret' = FolderRet("InsertNewMessage", r.err, r.id)
            /\ UNCHANGED <<box, oob, pc, rw, db>>

FolderInsertMessage ==
    \E id \in FolderIds, msg \in FolderPayloads, suffix \in FolderSuffixes :
        LET r == InsertMessage(mbox, id, msg, suffix)
        IN  /\ mbox' = r.f
            /\ ret' = FolderRet("InsertMessage", r.err, id)
            /\ UNCHANGED <<box, oob, pc, rw, db>>

FolderGetMessage ==
    \E id \in FolderIds :
        LET r == GetMessage(mbox, id)
        IN  /\ ret' = FolderRet("GetMessage", r.err, id)
            /\ UNCHANGED <<mbox, box, oob, pc, rw, db>>

FolderDeleteMessage ==
    \E id \in FolderIds :
        LET r == DeleteMessage(mbox, id)
        IN  /\ mbox' = r.f
            /\ ret' = FolderRet("DeleteMessage", r.err, id)
            /\ UNCHANGED <<box, oob, pc, rw, db>>

\* The bounds (0: none) and the suffixes ForEachMessage is called with.
ForEachBounds == {0, 2}
ForEachSuffixes == {1, 2}
\* The call at which the visitor returns its error: none, or the first.
ForEachStops == {0, 1}

\* The outcomes of the calls of ForEachMessage on the folder, over the
\* arguments and the call at which the visitor returns an error.
ForEachOutcomes(f) ==
    UNION {TestFolderForEachMessage(f, lowID, highID, suffix, stop) :
              lowID \in ForEachBounds, highID \in ForEachBounds,
              suffix \in ForEachSuffixes, stop \in ForEachStops}

FolderForEachMessage ==
    \E r \in ForEachOutcomes(mbox) :
        /\ ret' = [op |-> "ForEachMessage", err |-> r.err,
                   id |-> IF r.visited = <<>> THEN 0
                          ELSE r.visited[Len(r.visited)],
                   visited |-> r.visited]
        /\ UNCHANGED <<mbox, box, oob, pc, rw, db>>

NextFolder ==
    \/ FolderInsertNewMessage
    \/ FolderInsertMessage
    \/ FolderGetMessage
    \/ FolderDeleteMessage
    \/ FolderForEachMessage

SpecFolder == InitFolder /\ [][NextFolder]_vars

----------------------------------------------------------------------------
(* The store on its own: opened, closed and reopened, its passphrase       *)
(* changed, its counters and the folder in it written while it is open      *)

\* Highest id the store's folder allocates in a run of the store.
MaxStoreId == 1

StoreRet(op, err, arg, value) ==
    [op |-> op, err |-> err, arg |-> arg, value |-> value]

InitStore ==
    /\ mbox = EmptyFolder
    /\ box = EmptyBox
    /\ ret = StoreRet("TempFile", "", 0, 0)
    /\ oob = 0
    /\ pc = <<>>
    /\ rw = <<>>
    /\ db = ClosedStore

StoreOpen ==
    /\ ~db.open
    /\ \E pass \in Passphrases :
           LET r == Open(db, pass)
           IN  /\ db' = r.db
               /\ ret' = StoreRet("Open", r.err, pass, 0)
    /\ UNCHANGED <<mbox, box, oob, pc, rw>>

StoreClose ==
    /\ db.open
    /\ db' = Close(db)
    /\ ret' = StoreRet("Close", "", 0, 0)
    /\ UNCHANGED <<mbox, box, oob, pc, rw>>

StoreChangePassphrase ==
    /\ db.open
    /\ \E pass \in Passphrases :
           /\ db' = ChangePassphrase(db, pass)
           /\ ret' = StoreRet("ChangePassphrase", "", pass, 0)
    /\ UNCHANGED <<mbox, box, oob, pc, rw>>

StoreGetCounter ==
    /\ db.open
    /\ \E name \in CounterNames :
           ret' = StoreRet("GetCounter", "", name, GetCounter(db, name))
    /\ UNCHANGED <<mbox, box, oob, pc, rw, db>>

StoreSetCounter ==
    /\ db.open
    /\ \E name \in CounterNames, value \in CounterValues :
           /\ db' = SetCounter(db, name, value)
           /\ ret' = StoreRet("SetCounter", "", name, value)
    /\ UNCHANGED <<mbox, box, oob, pc, rw>>

StoreInsertNewMessage ==
    /\ db.open
    /\ LET r == InsertNewMessage(mbox, Junk, 1)
       IN  /\ r.f.nextIndex <= MaxStoreId + 1
           /\ mbox' = r.f
           /\ ret' = StoreRet("InsertNewMessage", r.err, 0, r.id)
    /\ UNCHANGED <<box, oob, pc, rw, db>>

StoreDeleteMessage ==
    /\ db.open
    /\ \E id \in 1..MaxStoreId :
           LET r == DeleteMessage(mbox, id)
           IN  /\ mbox' = r.f
               /\ ret' = StoreRet("DeleteMessage", r.err, id, 0)
    /\ UNCHANGED <<box, oob, pc, rw, db>>

NextStore ==
    \/ StoreOpen
    \/ StoreClose
    \/ StoreChangePassphrase
    \/ StoreGetCounter
    \/ StoreSetCounter
    \/ StoreInsertNewMessage
    \/ StoreDeleteMessage

SpecStore == InitStore /\ [][NextStore]_vars

----------------------------------------------------------------------------
(* The concurrent specification: threads call the mailbox's operations, each *)
(* a sequence of steps between which other threads run                       *)

Threads == {"t1", "t2"}
\* Highest id the folder allocates in a concurrent run.
MaxConcId == 2

Idle == [op |-> "idle", at |-> "idle", uid |-> 0]
At(op, at, uid) == [op |-> op, at |-> at, uid |-> uid]

\* The uids SaveBitmessage is called with in a concurrent run; the message
\* has the date of the stored one, the Seen flag and encoding 2.
ConcSaveMsg(uid) == Bitmessage(uid, 0, {FlagSeen}, 0, 0, FALSE, 2, TRUE)
ConcAddMsg == Bitmessage(0, 0, {}, 0, 0, FALSE, 2, TRUE)

\* sync.RWMutex: w is the writer that has called Lock (none other may, and
\* no new reader gets in), held whether it has the lock yet; readers counts
\* the read locks each thread holds.
FreeRW == [readers |-> [t \in Threads |-> 0], w |-> "none", held |-> FALSE]

CanRLock == rw.w = "none"
RLock(t) == rw' = [rw EXCEPT !.readers[t] = @ + 1]
RUnlock(t) == rw' = [rw EXCEPT !.readers[t] = @ - 1]
CanLock == rw.w = "none"
Lock(t) == rw' = [rw EXCEPT !.w = t]
CanGetLock(t) == rw.w = t /\ ~rw.held /\ \A r \in Threads : rw.readers[r] = 0
GetLock(t) == rw' = [rw EXCEPT !.held = TRUE]
Unlock(t) == rw' = [rw EXCEPT !.w = "none", !.held = FALSE]

InitConc ==
    /\ mbox = EmptyFolder
    /\ box = Refresh(EmptyFolder, EmptyBox).box
    /\ ret = Ret("NewMailbox", "", FALSE)
    /\ oob = 0
    /\ pc = [t \in Threads |-> Idle]
    /\ rw = FreeRW
    /\ db = OpenStore

Goto(t, where) == pc' = [pc EXCEPT ![t] = where]

\* AddNew calls that have not inserted yet.
PendingAddNew == {t \in Threads : pc[t].op = "AddNew" /\ pc[t].at \in {"stamp", "insert"}}

Call(t) ==
    /\ pc[t] = Idle
    /\ \/ Goto(t, At("Messages", "RLock", 0))
       \/ Goto(t, At("MessageByUID", "RLock", 0))
       \/ Goto(t, At("MessageSetByUID", "RLock", 0))
       \/ Goto(t, At("MessageSetBySequenceNumber", "RLock", 0))
       \/ Goto(t, At("Refresh", "Lock", 0))
       \/ /\ mbox.nextIndex + Cardinality(PendingAddNew) <= MaxConcId
          /\ Goto(t, At("AddNew", "stamp", 0))
       \/ \E uid \in 1..MaxConcId : Goto(t, At("SaveBitmessage", "previous", uid))
    /\ UNCHANGED <<mbox, box, ret, oob, rw, db>>

\* Messages, MessageByUID, MessageSetByUID: RLock, the read, RUnlock.
ReaderRLock(t) ==
    /\ pc[t].op \in {"Messages", "MessageByUID", "MessageSetByUID",
                     "MessageSetBySequenceNumber"}
    /\ pc[t].at = "RLock"
    /\ CanRLock
    /\ RLock(t)
    /\ Goto(t, IF pc[t].op = "MessageSetBySequenceNumber"
               THEN At(pc[t].op, "Messages1", 0)
               ELSE At(pc[t].op, "read", 0))
    /\ UNCHANGED <<mbox, box, ret, oob, db>>

ReaderReturn(t) ==
    /\ pc[t].op \in {"Messages", "MessageByUID", "MessageSetByUID",
                     "MessageSetBySequenceNumber"}
    /\ pc[t].at = "read"
    /\ RUnlock(t)
    /\ Goto(t, Idle)
    /\ UNCHANGED <<mbox, box, ret, oob, db>>

\* BitmessageSetBySequenceNumber, called with the read lock held, calls
\* Messages(), which takes the read lock again: once before the loop and,
\* when the mailbox is not empty, once in it.
InnerMessagesRLock(t) ==
    /\ pc[t].op = "MessageSetBySequenceNumber"
    /\ pc[t].at \in {"Messages1", "Messages2"}
    /\ CanRLock
    /\ RLock(t)
    /\ Goto(t, At(pc[t].op, IF pc[t].at = "Messages1" THEN "Messages1Return"
                            ELSE "Messages2Return", 0))
    /\ UNCHANGED <<mbox, box, ret, oob, db>>

InnerMessagesReturn(t) ==
    /\ pc[t].op = "MessageSetBySequenceNumber"
    /\ pc[t].at \in {"Messages1Return", "Messages2Return"}
    /\ RUnlock(t)
    /\ Goto(t, IF pc[t].at = "Messages1Return" /\ Messages(box) # 0
               THEN At(pc[t].op, "Messages2", 0)
               ELSE At(pc[t].op, "read", 0))
    /\ UNCHANGED <<mbox, box, ret, oob, db>>

\* Refresh, called directly or at the end of AddNew and SaveBitmessage.
RefreshLock(t) ==
    /\ pc[t].at = "Lock"
    /\ CanLock
    /\ Lock(t)
    /\ Goto(t, At(pc[t].op, "LockWait", pc[t].uid))
    /\ UNCHANGED <<mbox, box, ret, oob, db>>

RefreshGetLock(t) ==
    /\ pc[t].at = "LockWait"
    /\ CanGetLock(t)
    /\ GetLock(t)
    /\ Goto(t, At(pc[t].op, "ids", pc[t].uid))
    /\ UNCHANGED <<mbox, box, ret, oob, db>>

\* Refresh up to the scan: nextUID and lastUID.
RefreshIds(t) ==
    /\ pc[t].at = "ids"
    /\ LET nextUID == NextID(mbox)
           last == LastIDBySuffix(mbox, 2)
       IN  box' = [box EXCEPT !.nextUID = nextUID,
                              !.lastUID = IF last.err = "ErrNotFound"
                                          THEN nextUID ELSE last.id]
    /\ Goto(t, At(pc[t].op, "scan", pc[t].uid))
    /\ UNCHANGED <<mbox, ret, oob, rw, db>>

\* Refresh from the scan to its return, where the deferred Unlock runs.
RefreshScanReturn(t) ==
    /\ pc[t].at = "scan"
    /\ LET scan == RefreshScan(mbox, ForEachMessage(mbox, 0, 0, 2),
                       [err |-> "", recent |-> 0, unseen |-> 0, list |-> <<>>])
       IN  box' = IF scan.err # "" THEN box
                  ELSE [box EXCEPT !.uids = scan.list,
                                   !.numRecent = scan.recent,
                                   !.numUnseen = scan.unseen]
    /\ Unlock(t)
    /\ Goto(t, Idle)
    /\ UNCHANGED <<mbox, ret, oob, db>>

\* AddNew up to Serialize: it reads box.messages() for the sequence number.
AddNewStamp(t) ==
    /\ pc[t] = At("AddNew", "stamp", 0)
    /\ Goto(t, At("AddNew", "insert", Messages(box)))
    /\ UNCHANGED <<mbox, box, ret, oob, rw, db>>

AddNewInsert(t) ==
    /\ pc[t].op = "AddNew" /\ pc[t].at = "insert"
    /\ LET stamped == [ConcAddMsg EXCEPT !.seq = pc[t].uid, !.flags = {FlagRecent}]
           ins == MboxInsertMessage(mbox, Serialize(stamped), 0, stamped.enc)
       IN  /\ mbox' = ins.f
           /\ Goto(t, IF ins.err # "" THEN Idle ELSE At("AddNew", "Lock", ins.id))
    /\ UNCHANGED <<box, ret, oob, rw, db>>

\* SaveBitmessage up to the delete: the stored version must be there.
SavePrevious(t) ==
    /\ pc[t].op = "SaveBitmessage" /\ pc[t].at = "previous"
    /\ LET msg == ConcSaveMsg(pc[t].uid)
           previous == BitmessageByUID(mbox, box, msg.uid)
       IN  Goto(t, IF previous.nil \/ previous.uid # msg.uid
                      \/ previous.date # msg.date
                   THEN Idle
                   ELSE At("SaveBitmessage", "delete", msg.uid))
    /\ UNCHANGED <<mbox, box, ret, oob, rw, db>>

SaveDelete(t) ==
    /\ pc[t].op = "SaveBitmessage" /\ pc[t].at = "delete"
    /\ LET del == DeleteMessage(mbox, pc[t].uid)
       IN  /\ mbox' = del.f
           /\ Goto(t, IF del.err # "" THEN Idle
                      ELSE At("SaveBitmessage", "insert", pc[t].uid))
    /\ UNCHANGED <<box, ret, oob, rw, db>>

SaveInsert(t) ==
    /\ pc[t].op = "SaveBitmessage" /\ pc[t].at = "insert"
    /\ LET msg == ConcSaveMsg(pc[t].uid)
           ins == MboxInsertMessage(mbox, Serialize(msg), msg.uid, msg.enc)
       IN  /\ mbox' = ins.f
           /\ Goto(t, IF ins.err # "" THEN Idle
                      ELSE At("SaveBitmessage", "Lock", ins.id))
    /\ UNCHANGED <<box, ret, oob, rw, db>>

NextConc ==
    \E t \in Threads :
        \/ Call(t)
        \/ ReaderRLock(t)
        \/ ReaderReturn(t)
        \/ InnerMessagesRLock(t)
        \/ InnerMessagesReturn(t)
        \/ RefreshLock(t)
        \/ RefreshGetLock(t)
        \/ RefreshIds(t)
        \/ RefreshScanReturn(t)
        \/ AddNewStamp(t)
        \/ AddNewInsert(t)
        \/ SavePrevious(t)
        \/ SaveDelete(t)
        \/ SaveInsert(t)

SpecConc == InitConc /\ [][NextConc]_vars

----------------------------------------------------------------------------
(* GetSequenceNumber on its own: every strictly ascending list over         *)
(* 1..MaxUid and every uid in 0..MaxUid+1                                    *)

InitLookup ==
    /\ mbox = EmptyFolder
    /\ box \in {[EmptyBox EXCEPT !.uids = Ascending(S)] : S \in SUBSET (1..MaxUid)}
    /\ ret \in {[op |-> "none", uid |-> u, seqno |-> 0] : u \in 0..(MaxUid + 1)}
    /\ oob = 0
    /\ pc = <<>>
    /\ rw = <<>>
    /\ db = ClosedStore

DoGetSequenceNumber ==
    /\ ret.op = "none"
    /\ ret' = [op |-> "GetSequenceNumber", uid |-> ret.uid,
               seqno |-> GetSequenceNumber(box.uids, ret.uid)]
    /\ UNCHANGED <<mbox, box, oob, pc, rw, db>>

SpecLookup == InitLookup /\ [][DoGetSequenceNumber]_vars

----------------------------------------------------------------------------
(* What the claims are stated in *)

\* The ids of the folder's entries with suffix 2.
Suffix2Ids(f) == {id \in Present(f) : f.messages[id].suffix = 2}

StrictlyAscending(seq) ==
    \A i, j \in 1..Len(seq) : i < j => seq[i] < seq[j]

Elements(seq) == {seq[i] : i \in 1..Len(seq)}

\* The cached uid list is the ascending list of the folder's suffix-2 ids.
CacheTracksFolder(f, b) ==
    /\ StrictlyAscending(b.uids)
    /\ Elements(b.uids) = Suffix2Ids(f)

\* The cache is refreshed against the folder: a Refresh now succeeds and
\* changes nothing.
Refreshed(f, b) ==
    LET r == Refresh(f, b) IN r.err = "" /\ r.box = b

\* The 1-based position of uid in the list, 0 if it is not in it.
Position(uids, uid) ==
    IF \E k \in 1..Len(uids) : uids[k] = uid
    THEN CHOOSE k \in 1..Len(uids) : uids[k] = uid
    ELSE 0

\* C5: for a strictly ascending list, GetSequenceNumber returns the least
\* position whose element is >= the uid, and 0 exactly when there is none
\* (the list is empty or the uid exceeds every element); for a uid in the
\* list that is the uid's position.
C5_GetSequenceNumber ==
    ret.op = "GetSequenceNumber" =>
        LET uids == box.uids
            S == {k \in 1..Len(uids) : uids[k] >= ret.uid}
        IN  /\ StrictlyAscending(uids)
            /\ S # {} => ret.seqno \in S /\ \A k \in S : ret.seqno <= k
            /\ ret.seqno = 0 <=> S = {}
            /\ ret.seqno = 0 <=>
                   (Len(uids) = 0 \/ \A k \in 1..Len(uids) : ret.uid > uids[k])
            /\ Position(uids, ret.uid) # 0 => ret.seqno = Position(uids, ret.uid)

\* A lookup of a uid that is not in the list and lies below a later element:
\* the result is the position of the next element.
C5_Witness ==
    /\ ret.op = "GetSequenceNumber"
    /\ ret.seqno >= 2
    /\ box.uids[ret.seqno] > ret.uid

\* C2: after a successful Refresh the cached uid list is the strictly
\* ascending, duplicate-free list of the ids of all suffix-2 entries of the
\* folder, Messages() is its length, Recent() counts those with the Recent
\* flag, Unseen() those without the Seen flag, NextUID() is the folder's
\* NextID and LastUID() is what LastIDBySuffix(2) finds.
C2_RefreshRebuildsCache ==
    (ret.op = "Refresh" /\ ret.err = "") =>
        LET ids == Suffix2Ids(mbox)
            last == LastIDBySuffix(mbox, 2)
        IN  /\ StrictlyAscending(box.uids)
            /\ Elements(box.uids) = ids
            /\ Messages(box) = Cardinality(ids)
            /\ box.numRecent = Cardinality({id \in ids :
                   FlagRecent \in mbox.messages[id].payload.flags})
            /\ box.numUnseen = Cardinality({id \in ids :
                   FlagSeen \notin mbox.messages[id].payload.flags})
            /\ box.nextUID = NextID(mbox)
            /\ last.err = "" => box.lastUID = last.id

\* A successful Refresh of a folder that holds an entry of another suffix
\* and at least two messages, one of them recent and more of them unseen.
C2_Witness ==
    /\ ret.op = "Refresh" /\ ret.err = ""
    /\ Len(box.uids) >= 2
    /\ box.numRecent >= 1
    /\ box.numUnseen > box.numRecent
    /\ \E id \in Present(mbox) : mbox.messages[id].suffix # 2

\* A message of the mailbox is stored under the uid: a suffix-2 entry that
\* decodes.
HasVersion(f, uid) ==
    /\ uid \in Present(f)
    /\ f.messages[uid].suffix = 2
    /\ f.messages[uid].payload.kind = "entry"

\* C7: SaveBitmessage of an entry with a non-zero uid returns the
\* invalid-sequence error when no version is stored under the uid and the
\* cannot-change-date error when one is stored with another received date;
\* either way the folder is as it was.
C7_SaveRejects ==
    \A msg \in SaveInputs :
        msg.uid # 0 =>
            LET r == SaveBitmessage(mbox, box, msg)
            IN  /\ ~HasVersion(mbox, msg.uid) =>
                       r.err = "Invalid sequence number" /\ r.f = mbox
                /\ (HasVersion(mbox, msg.uid)
                    /\ mbox.messages[msg.uid].payload.date # msg.date) =>
                       r.err = "Cannot change date received" /\ r.f = mbox

\* SaveBitmessage has just refused to change the received date of a stored
\* message, in a folder that also has an id with no message under it.
C7_Witness ==
    /\ ret.op = "SaveBitmessage"
    /\ ret.err = "Cannot change date received"
    /\ \E uid \in 1..MaxId : HasVersion(mbox, uid)
    /\ \E uid \in 1..MaxId : uid < mbox.nextIndex /\ ~HasVersion(mbox, uid)

\* Every uid, sequence number and uid range a lookup is asked for.
LookupArgs == 0..(MaxId + 1)

\* The messages the lookups return, over every argument.
LookedUp(f, b) ==
    {BitmessageByUID(f, b, u) : u \in LookupArgs}
    \cup {BitmessageBySequenceNumber(f, b, n) : n \in LookupArgs}
    \cup UNION {Elements(BitmessagesByUIDRange(f, b, s, e)) :
                    s \in LookupArgs, e \in LookupArgs}
    \cup UNION {Elements(BitmessagesSinceUID(f, b, s)) : s \in LookupArgs}

\* The cached uid list is the ascending list of the ids of the folder's
\* messages, the suffix-2 entries that decode.
CacheListsMessages(f, b) ==
    /\ StrictlyAscending(b.uids)
    /\ Elements(b.uids) = {id \in Present(f) : HasVersion(f, id)}

\* C6: with the cached uid list the list of the folder's messages, every
\* message a lookup returns carries the 1-based position of its uid in the
\* cached uid list, also when the folder holds suffix-2 entries that do not
\* decode and the range scans skip them.
C6_SequenceNumbersArePositions ==
    CacheListsMessages(mbox, box) =>
        \A bm \in LookedUp(mbox, box) :
            ~bm.nil => bm.seq # 0 /\ bm.seq = Position(box.uids, bm.uid)

\* The cache lists the two messages of a folder that also holds a suffix-2
\* entry that does not decode, and the uid range up to that entry returns
\* the second message.
C6_Witness ==
    /\ CacheListsMessages(mbox, box)
    /\ \E j \in Suffix2Ids(mbox) :
           /\ mbox.messages[j].payload.kind # "entry"
           /\ \E bm \in Elements(BitmessagesByUIDRange(mbox, box, 1, j)) :
                  bm.seq = 2

\* C1: as long as only the mailbox's own operations have run, whatever each
\* returned, the cached uid list is the list of the ids of the folder's
\* suffix-2 entries.
C1_CacheFollowsLocalMutations ==
    oob = 0 => CacheTracksFolder(mbox, box)

\* The step is SaveBitmessage(msg) returning success.
SaveSucceeds(msg) ==
    LET r == SaveBitmessage(mbox, box, msg)
    IN  /\ r.err = ""
        /\ ret'.op = "SaveBitmessage" /\ ret'.err = ""
        /\ mbox' = r.f
        /\ box' = r.box

\* C8: a successful SaveBitmessage of an entry that carried a uid, on a
\* refreshed mailbox, leaves the new version of the entry stored under the
\* entry's uid as a message of the mailbox, no other id added or removed,
\* Messages() as before and the uid in the refreshed cache.
C8_SaveReplaces ==
    [][\A msg \in SaveInputs :
          (msg.uid # 0 /\ Refreshed(mbox, box) /\ SaveSucceeds(msg)) =>
              LET uid == SaveBitmessage(mbox, box, msg).uid
              IN  /\ HasVersion(mbox', uid)
                  /\ mbox'.messages[uid].payload = Serialize(msg)
                  /\ Present(mbox') = (Present(mbox) \ {msg.uid}) \cup {uid}
                  /\ \A id \in Present(mbox) \ {msg.uid} :
                         mbox'.messages[id] = mbox.messages[id]
                  /\ Messages(box') = Messages(box)
                  /\ uid \in Elements(box'.uids)]_vars

\* The ids of the messages of the mailbox whose ack bytes are the given ones.
AckHolders(f, ack) ==
    {id \in Present(f) : HasVersion(f, id) /\ f.messages[id].payload.ack = ack}

\* The step is ReceiveAck(ack).
ReceiveAckStep(ack) ==
    LET r == ReceiveAck(mbox, box, ack)
    IN  /\ ret'.op = "ReceiveAck" /\ ret'.match = ~r.match.nil
        /\ mbox' = r.f
        /\ box' = r.box

\* C9: ReceiveAck with the ack bytes of exactly one message returns a match
\* and afterwards that stored entry has ack-received set and every other
\* id holds what it held (none added); with the ack bytes of no message it
\* returns none and leaves the folder and the cache as they were.
C9_ReceiveAckMarksOnlyTheMatch ==
    [][\A ack \in AckInputs :
          ReceiveAckStep(ack) =>
              /\ \A k \in AckHolders(mbox, ack) :
                     AckHolders(mbox, ack) = {k} =>
                         /\ ret'.match
                         /\ HasVersion(mbox', k)
                         /\ mbox'.messages[k].payload.ackReceived
                         /\ \A id \in Present(mbox') \ {k} :
                                /\ id \in Present(mbox)
                                /\ mbox'.messages[id] = mbox.messages[id]
              /\ AckHolders(mbox, ack) = {} =>
                     ~ret'.match /\ mbox' = mbox /\ box' = box]_vars

\* C10: a matching ReceiveAck replaces the stored version of the matched
\* entry: the folder holds the same ids after it as before, allocates no
\* new id, and Messages() is as it was.
C10_ReceiveAckReplaces ==
    [][(ret'.op = "ReceiveAck" /\ ret'.match /\ Refreshed(mbox, box)) =>
          /\ Present(mbox') = Present(mbox)
          /\ NextID(mbox') = NextID(mbox)
          /\ Messages(box') = Messages(box)]_vars

\* The thread is inside a mutating operation, past the step that first reads
\* the cache or the folder: AddNew after it has read box.messages(),
\* SaveBitmessage after it has fetched the stored version, Refresh after its
\* call of Lock.
InMutation(t) ==
    \/ pc[t].op = "AddNew" /\ pc[t].at # "stamp"
    \/ pc[t].op = "SaveBitmessage" /\ pc[t].at # "previous"
    \/ pc[t].op = "Refresh" /\ pc[t].at \in {"ids", "scan"}

HoldsWriteLock(t) == rw.w = t /\ rw.held

\* C3: a thread inside a mutating operation holds the write lock, so no two
\* threads are inside mutating operations at once and no thread is about to
\* insert into or delete from the folder while another is inside Refresh.
C3_MutationsHoldTheWriteLock ==
    /\ \A t \in Threads : InMutation(t) => HoldsWriteLock(t)
    /\ \A t, u \in Threads : t # u => ~(InMutation(t) /\ InMutation(u))
    /\ \A t, u \in Threads :
           (t # u /\ pc[t].at \in {"ids", "scan"}) =>
               ~(pc[u].op \in {"AddNew", "SaveBitmessage"}
                 /\ pc[u].at \in {"insert", "delete"})

\* The thread's next step cannot be taken in this state.
Blocked(t) ==
    \/ pc[t].at \in {"RLock", "Messages1", "Messages2"} /\ ~CanRLock
    \/ pc[t].at = "Lock" /\ ~CanLock
    \/ pc[t].at = "LockWait" /\ ~CanGetLock(t)

\* C4: while operations are in progress, one of them can take its next step
\* (if none can, none of them ever returns).
C4_SomeOperationProceeds ==
    (\E t \in Threads : pc[t] # Idle) =>
        \E t \in Threads : pc[t] # Idle /\ ~Blocked(t)

\* C11: an entry that does not decode is skipped by every bulk scan: a
\* Refresh succeeds and caches the messages that decode, ReceiveAck finds a
\* message with the ack bytes wherever it is stored, and a uid range scan
\* returns the messages of the range that decode.
C11_ScansSkipUndecodable ==
    /\ ret.op = "Refresh" => ret.err = "" /\ CacheListsMessages(mbox, box)
    /\ \A ack \in AckInputs :
           AckHolders(mbox, ack) # {} => ~ReceiveAck(mbox, box, ack).match.nil
    /\ \A lo, hi \in 1..MaxId :
           {bm.uid : bm \in Elements(getRange(mbox, box, lo, hi, 1, 1))}
               = {id \in lo..hi : HasVersion(mbox, id)}

\* The message stored under the id as the mailbox presents it: decoded, with
\* the id as uid and its position in the cached uid list as sequence number.
StoredMessage(f, b, id) ==
    [DecodeBitmessage(f.messages[id].payload) EXCEPT
        !.uid = id, !.seq = Position(b.uids, id)]

\* The folder's messages with uid in lo..hi, in ascending uid order.
MessagesBetween(f, b, lo, hi) ==
    LET ids == Ascending({id \in Present(f) :
                   HasVersion(f, id) /\ lo <= id /\ id <= hi})
    IN  [k \in 1..Len(ids) |-> StoredMessage(f, b, ids[k])]

NonNil(msgs) == SelectSeq(msgs, LAMBDA m : ~m.nil)

\* The values set elements are given.
SetValues == 1..(MaxId + 1)

MessagesAt(f, b, a, z) ==
    LET n == IF z >= a THEN z - a + 1 ELSE 0
    IN  [k \in 1..n |-> StoredMessage(f, b, b.uids[a + k - 1])]

\* C13: on a refreshed mailbox BitmessageSetBySequenceNumber resolves a
\* single value n in 1..Messages() to the message whose uid is at position
\* n, a pair (a, z) to the messages at positions a..z and (a, "last") to
\* the messages at positions a..Messages().
C13_SequenceSetResolution ==
    Refreshed(mbox, box) =>
        \A a \in 1..Messages(box) :
            /\ BitmessageSetBySequenceNumber(mbox, box,
                   <<SeqRange(SeqValue(a), SeqNil)>>)
                   = Slice(MessagesAt(mbox, box, a, a))
            /\ BitmessageSetBySequenceNumber(mbox, box,
                   <<SeqRange(SeqValue(a), SeqLast)>>)
                   = Slice(MessagesAt(mbox, box, a, Messages(box)))
            /\ \A z \in a..Messages(box) :
                   BitmessageSetBySequenceNumber(mbox, box,
                       <<SeqRange(SeqValue(a), SeqValue(z))>>)
                       = Slice(MessagesAt(mbox, box, a, z))

\* C14: after a successful Refresh, BitmessagesSinceUID(u) returns the
\* suffix-2 entries stored now with uid >= u, each once, in ascending uid
\* order.
C14_SinceUid ==
    (ret.op = "Refresh" /\ ret.err = "") =>
        \A u \in 0..(MaxId + 1) :
            LET since == BitmessagesSinceUID(mbox, box, u)
            IN  /\ since = MessagesBetween(mbox, box, u, NextID(mbox))
                /\ [k \in 1..Len(since) |-> since[k].uid]
                       = Ascending({id \in Suffix2Ids(mbox) : id >= u})

\* Ids 1, 2 and 3 were stored, id 2 was deleted, the mailbox was refreshed,
\* and "since uid 2" is the message stored under id 3.
C14_Witness ==
    /\ ret.op = "Refresh" /\ ret.err = ""
    /\ NextID(mbox) = 4
    /\ Present(mbox) = {1, 3}
    /\ BitmessagesSinceUID(mbox, box, 2) = <<StoredMessage(mbox, box, 3)>>

\* C15: a Refresh of a folder that holds no suffix-2 entry succeeds and
\* leaves Messages() = 0 and LastUID() = NextUID() = the folder's NextID.
C15_EmptyMailboxFallback ==
    (ret.op \in {"Refresh", "NewMailbox"} /\ Suffix2Ids(mbox) = {}) =>
        /\ ret.err = ""
        /\ Messages(box) = 0
        /\ box.lastUID = box.nextUID
        /\ box.nextUID = NextID(mbox)

\* A Refresh of a folder that has allocated ids and holds no entry any more.
C15_Witness ==
    /\ ret.op = "Refresh"
    /\ Present(mbox) = {}
    /\ NextID(mbox) > 1
    /\ box.lastUID = NextID(mbox)

\* The step is AddNew(bmsg, flags) at the instant now, returning success.
AddNewSucceeds(bmsg, flags, now) ==
    LET r == AddNew(mbox, box, bmsg, flags, now)
    IN  /\ r.err = ""
        /\ ret'.op = "AddNew" /\ ret'.err = ""
        /\ mbox' = r.f
        /\ box' = r.box

Count(cond) == IF cond THEN 1 ELSE 0

\* What C16 says of a successful AddNew step.
AddNewEffect(bmsg, flags, now) ==
    LET id == AddNew(mbox, box, bmsg, flags, now).uid
    IN  /\ id = box.nextUID
        /\ id \notin Present(mbox)
        /\ HasVersion(mbox', id)
        /\ mbox'.messages[id].payload.flags = flags
        /\ Messages(box') = Messages(box) + 1
        /\ box'.numRecent = box.numRecent + Count(FlagRecent \in flags)
        /\ box'.numUnseen = box.numUnseen + Count(FlagSeen \notin flags)
        /\ box'.lastUID = id

\* C16: when only the mailbox's own operations have run, a successful
\* AddNew(entry, flags) stores the entry with the flags under the id
\* NextUID() gave before the call, Messages() grows by 1, Recent() by 1 iff
\* the flags hold Recent, Unseen() by 1 iff they do not hold Seen, and
\* LastUID() is the new id.
C16_AddNewCounts ==
    [][\A bmsg \in AddNewInputs, flags \in FlagSets, now \in Dates :
          (oob = 0 /\ AddNewSucceeds(bmsg, flags, now)) =>
              AddNewEffect(bmsg, flags, now)]_vars

\* C17: no folder operation lowers NextID; every id the folder holds, and
\* every id an auto-id insert hands out, is below NextID afterwards, and
\* the id handed out is one NextID had not passed before; a delete, of the
\* highest id too, leaves NextID as it was.
C17_NextIdOnlyGrows ==
    [][/\ NextID(mbox') >= NextID(mbox)
       /\ \A id \in Present(mbox) \cup Present(mbox') : id < NextID(mbox')
       /\ (ret'.op = "InsertNewMessage" /\ ret'.err = "") =>
              /\ ret'.id >= NextID(mbox)
              /\ ret'.id < NextID(mbox')
       /\ ret'.op = "DeleteMessage" => NextID(mbox') = NextID(mbox)]_vars

\* The highest id of a folder that had allocated three has just been
\* deleted.
C17_Witness ==
    /\ ret.op = "DeleteMessage" /\ ret.err = ""
    /\ ret.id = 3
    /\ NextID(mbox) = 4
    /\ 3 \notin Present(mbox)

\* C18: the last id reported for a suffix is the highest id present with
\* that suffix, and 0 exactly when no entry present has the suffix; LastID
\* is the highest id present, 0 for a folder that holds nothing.
C18_LastIdBySuffix ==
    /\ \A sfx \in 0..(MaxSuffix + 1) :
           LET ids == {id \in Present(mbox) : mbox.messages[id].suffix = sfx}
               got == MapGet(LastIDs(mbox).lastBySuffix, sfx)
           IN  /\ got = 0 <=> ids = {}
               /\ ids # {} => got = Max(ids)
    /\ LastIDs(mbox).lastId = IF Present(mbox) = {} THEN 0 ELSE Max(Present(mbox))

\* The highest entry of the folder has just been deleted; the last id of
\* one suffix is now a lower entry, another suffix has an entry below that
\* one, and a third has none.
C18_Witness ==
    /\ ret.op = "DeleteMessage" /\ ret.err = ""
    /\ ret.id = NextID(mbox) - 1
    /\ \E s1, s2, s3 \in FolderSuffixes :
           LET last == LastIDs(mbox).lastBySuffix
           IN  /\ MapGet(last, s1) = LastIDs(mbox).lastId
               /\ MapGet(last, s2) > 0
               /\ MapGet(last, s2) < MapGet(last, s1)
               /\ MapGet(last, s3) = 0

\* C19 as the spec states it: GetMessage and DeleteMessage fail with
\* ErrInvalidID exactly for id 0 and ids from NextID on, with ErrNotFound
\* exactly for ids in between with no entry, and succeed otherwise.
C19_InvalidIdOrNotFound ==
    \A id \in FolderIds :
        LET get == GetMessage(mbox, id)
            del == DeleteMessage(mbox, id)
            outside == id = 0 \/ id >= NextID(mbox)
            absent == ~outside /\ id \notin Present(mbox)
        IN  /\ get.err = "ErrInvalidID" <=> outside
            /\ get.err = "ErrNotFound" <=> absent
            /\ get.err = "" <=> (~outside /\ ~absent)
            /\ del.err = "ErrInvalidID" <=> outside
            /\ del.err = "ErrNotFound" <=> absent
            /\ del.err = "" <=> (~outside /\ ~absent)

\* C19, amended: DeleteMessage fails with ErrInvalidID exactly for id 0 and
\* ids from NextID on and with ErrNotFound exactly for ids in between with
\* no entry; GetMessage fails with ErrNotFound in all those cases and never
\* with ErrInvalidID; otherwise the delete removes the entry and the get
\* returns its suffix and payload.
C19_DeleteInvalidGetNotFound ==
    \A id \in FolderIds :
        LET get == GetMessage(mbox, id)
            del == DeleteMessage(mbox, id)
            outside == id = 0 \/ id >= NextID(mbox)
            absent == ~outside /\ id \notin Present(mbox)
        IN  /\ get.err = "ErrNotFound" <=> (outside \/ absent)
            /\ get.err # "ErrInvalidID"
            /\ get.err = "" <=> (~outside /\ ~absent)
            /\ get.err = "" => /\ get.suffix = mbox.messages[id].suffix
                               /\ get.payload = mbox.messages[id].payload
            /\ del.err = "ErrInvalidID" <=> outside
            /\ del.err = "ErrNotFound" <=> absent
            /\ del.err = "" <=> (~outside /\ ~absent)
            /\ del.err = "" => Present(del.f) = Present(mbox) \ {id}
            /\ del.err # "" => del.f = mbox

\* GetMessage has just been called with an id beyond those allocated, on a
\* folder that holds an entry and has an id with none.
C19_Witness ==
    /\ ret.op = "GetMessage" /\ ret.err = "ErrNotFound"
    /\ ret.id >= NextID(mbox)
    /\ Present(mbox) # {}
    /\ \E id \in 1..(NextID(mbox) - 1) : id \notin Present(mbox)

\* C20: with max the folder's NextID, GetMessage(0) and GetMessage(max)
\* return ErrNotFound, DeleteMessage(0) and DeleteMessage(max) return
\* ErrInvalidID, and InsertMessage(0, ...) and InsertMessage(max, ...)
\* return ErrInvalidID whatever the payload (the test passes nil).
C20_InvalidIndexTest ==
    LET max == NextID(mbox)
    IN  /\ GetMessage(mbox, 0).err = "ErrNotFound"
        /\ GetMessage(mbox, max).err = "ErrNotFound"
        /\ DeleteMessage(mbox, 0).err = "ErrInvalidID"
        /\ DeleteMessage(mbox, max).err = "ErrInvalidID"
        /\ \A msg \in FolderPayloads, suffix \in 0..MaxSuffix :
               /\ InsertMessage(mbox, 0, msg, suffix).err = "ErrInvalidID"
               /\ InsertMessage(mbox, max, msg, suffix).err = "ErrInvalidID"

\* InsertMessage has just been refused at the folder's NextID, on a folder
\* that holds entries.
C20_Witness ==
    /\ ret.op = "InsertMessage" /\ ret.err = "ErrInvalidID"
    /\ ret.id = NextID(mbox)
    /\ Present(mbox) # {}

\* An id the folder has not allocated: 0, or NextID and above.
Unallocated(f, id) == id = 0 \/ id >= NextID(f)

\* The folder after InsertMessage has stored the entry under the id: the
\* entry is there, every other entry and NextID are as before.
StoredAt(f, g, id, msg, suffix) ==
    /\ NextID(g) = NextID(f)
    /\ Present(g) = Present(f) \cup {id}
    /\ g.messages[id] = [payload |-> msg, suffix |-> suffix]
    /\ \A i \in Present(f) \ {id} : g.messages[i] = f.messages[i]

\* C21 as stated, for every payload: InsertMessage(id, payload, suffix)
\* fails with ErrInvalidID exactly when the id is 0 or not below NextID,
\* fails with ErrDuplicateID exactly when the id is allocated and an entry
\* is there, and otherwise stores the entry under the id; a failing call
\* changes nothing.
C21_InsertMessageAnyPayload ==
    \A id \in FolderIds, msg \in FolderPayloads, suffix \in FolderSuffixes :
        LET r == InsertMessage(mbox, id, msg, suffix)
        IN  /\ r.err = "ErrInvalidID" <=> Unallocated(mbox, id)
            /\ r.err = "ErrDuplicateID" <=>
                   (~Unallocated(mbox, id) /\ id \in Present(mbox))
            /\ r.err # "" => r.f = mbox
            /\ r.err \notin {"ErrInvalidID", "ErrDuplicateID"} =>
                   r.err = "" /\ StoredAt(mbox, r.f, id, msg, suffix)

\* C21, amended: the id is checked first, for every payload; with an
\* allocated id a nil payload is refused, whether an entry is there or not,
\* and a payload that is not nil fails with ErrDuplicateID exactly when an
\* entry is there and is stored under the id otherwise, NextID and every
\* other entry unchanged; a failing call changes nothing.
C21_InsertMessageContract ==
    \A id \in FolderIds, msg \in FolderPayloads, suffix \in FolderSuffixes :
        LET r == InsertMessage(mbox, id, msg, suffix)
        IN  /\ r.err = "ErrInvalidID" <=> Unallocated(mbox, id)
            /\ r.err = "NilMessage" <=>
                   (~Unallocated(mbox, id) /\ msg.kind = "nil")
            /\ r.err = "ErrDuplicateID" <=>
                   /\ ~Unallocated(mbox, id)
                   /\ msg.kind # "nil"
                   /\ id \in Present(mbox)
            /\ r.err # "" => r.f = mbox
            /\ r.err = "" => StoredAt(mbox, r.f, id, msg, suffix)

\* InsertMessage has stored an entry under an id below the highest one
\* present, and the folder holds an allocated id with no entry, at which a
\* nil payload is refused.
C21_Witness ==
    /\ ret.op = "InsertMessage"
    /\ ret.err = ""
    /\ ret.id \in Present(mbox)
    /\ ret.id < LastID(mbox)
    /\ \E id \in 1..(NextID(mbox) - 1) :
           /\ id \notin Present(mbox)
           /\ InsertMessage(mbox, id, NilBytes, 1).err = "NilMessage"

\* The ids a step stores an entry under that had none before it.
NewIds == Present(mbox') \ Present(mbox)

\* C22 as stated: ids are never reused; once the entry under an id is
\* deleted, no later operation stores an entry under that id again.
C22_DeletedIdsStayEmpty ==
    [][\A i \in 1..(NextID(mbox) - 1) :
          i \notin Present(mbox) => i \notin Present(mbox')]_vars

\* C22, amended: the auto-id insert never reuses an id; it stores under
\* NextID, which is above every id allocated so far, and moves NextID one
\* up, so the ids it hands out are strictly increasing, and no operation
\* lowers NextID. The explicit-id insert stores only under an id that is
\* allocated and has no entry, which is the id of a deleted entry.
C22_AutoIdsNeverReused ==
    [][/\ NextID(mbox') >= NextID(mbox)
       /\ \A i \in NewIds : i <= NextID(mbox)
       /\ (ret'.op = "InsertNewMessage" /\ ret'.err = "") =>
              /\ ret'.id = NextID(mbox)
              /\ \A i \in Present(mbox) : i < ret'.id
              /\ NewIds = {ret'.id}
              /\ NextID(mbox') = ret'.id + 1
       /\ (ret'.op = "InsertMessage" /\ ret'.err = "") =>
              /\ ret'.id < NextID(mbox)
              /\ NewIds = {ret'.id}
              /\ NextID(mbox') = NextID(mbox)
       /\ ret'.op \notin {"InsertNewMessage", "InsertMessage"} =>
              NewIds = {}]_vars

\* The auto-id insert has stored an entry while a lower id, whose entry was
\* deleted, has none.
C22_Witness ==
    /\ ret.op = "InsertNewMessage"
    /\ ret.err = ""
    /\ ret.id \in Present(mbox)
    /\ \E i \in 1..(ret.id - 1) : i \notin Present(mbox)

\* What ForEachMessage is to visit: the ids in ascending order of the
\* entries with the suffix whose id is within the bounds, up to the call
\* at which the visitor returns an error.
ToVisit(f, lowID, highID, suffix, stop) ==
    LET all == ForEachMessage(f, lowID, highID, suffix)
    IN  IF stop \in 1..Len(all)
        THEN [err |-> "VisitorError", visited |-> SubSeq(all, 1, stop)]
        ELSE [err |-> "", visited |-> all]

\* C23: ForEachMessage(lowID, highID, suffix, visit) calls the visitor in
\* strictly ascending id order, once for every entry whose id is within the
\* bounds (0: no bound) and whose suffix is the filter, for no other entry,
\* and stops with the visitor's error at the first call that returns one.
C23_ForEachMessageVisitsInOrder ==
    \A lowID \in ForEachBounds, highID \in ForEachBounds,
       suffix \in ForEachSuffixes, stop \in ForEachStops :
        \A r \in TestFolderForEachMessage(mbox, lowID, highID, suffix, stop) :
            r = ToVisit(mbox, lowID, highID, suffix, stop)

\* The passphrases that open the store once it is closed.
Unlocking(d) == {pass \in Passphrases : Open(Close(d), pass).err = ""}

\* C24: Open succeeds exactly with the passphrase the store was created
\* under or the one it was last changed to, and fails with
\* ErrDecryptionFailed with any other; a failed Open changes nothing, and
\* closing and opening leave the counters and the folder as they were.
C24_OpenClose ==
    [][/\ (ret'.op = "Open" /\ ~db.file.created) =>
              ret'.err = "" /\ Unlocking(db') = {ret'.arg}
       /\ ret'.op = "ChangePassphrase" =>
              ret'.err = "" /\ Unlocking(db') = {ret'.arg}
       /\ (ret'.op = "Open" /\ db.file.created) =>
              /\ ret'.err = "" <=> ret'.arg \in Unlocking(db)
              /\ ret'.err # "" =>
                     /\ ret'.err = "ErrDecryptionFailed"
                     /\ db' = db
                     /\ mbox' = mbox
       /\ ~(ret'.op = "Open" /\ ~db.file.created)
             /\ ret'.op # "ChangePassphrase" =>
              Unlocking(db') = Unlocking(db)
       /\ ret'.op \in {"Open", "Close"} =>
              /\ mbox' = mbox
              /\ \A name \in CounterNames :
                     GetCounter(db', name) = GetCounter(db, name)]_vars

\* The store is open under a passphrase it was changed to, not the one it
\* was created under, with a counter set and an entry in its folder.
C24_Witness ==
    /\ ret.op = "Open"
    /\ ret.err = ""
    /\ ret.arg = "new_password"
    /\ Unlocking(db) = {"new_password"}
    /\ GetCounter(db, 0) = 34
    /\ Present(mbox) # {}

\* What a step does to the counters: GetCounter returns the counter's
\* value, SetCounter sets the one it names, nothing else changes any.
CounterStep ==
    /\ ret'.op = "GetCounter" => ret'.value = GetCounter(db, ret'.arg)
    /\ ret'.op = "SetCounter" =>
           /\ GetCounter(db', ret'.arg) = ret'.value
           /\ \A name \in CounterNames \ {ret'.arg} :
                  GetCounter(db', name) = GetCounter(db, name)
    /\ ret'.op # "SetCounter" =>
           \A name \in CounterNames :
               GetCounter(db', name) = GetCounter(db, name)

\* C25: GetCounter returns 1 for a name that was never set; after
\* SetCounter(name, v) it returns v for the name until the next SetCounter
\* of that name, and setting one counter changes no other.
C25_Counters ==
    /\ \A name \in CounterNames : GetCounter(db, name) = 1
    /\ [][CounterStep]_vars

\* GetCounter has returned the value a counter was set to, 34, while the
\* other counter, never set, is 1.
C25_Witness ==
    /\ ret.op = "GetCounter"
    /\ ret.arg = 0
    /\ ret.value = 34
    /\ GetCounter(db, 1) = 1
    /\ 1 \notin DOMAIN db.file.counters

\* C26: on a refreshed mailbox, BitmessagesBySequenceRange(start, end) with
\* 1 <= start <= end <= Messages() returns the messages at the positions
\* start..end and BitmessagesSinceSequenceNumber(start) those at the
\* positions start..Messages(); neither indexes the uid list out of its
\* bounds.
C26_SequenceRanges ==
    Refreshed(mbox, box) =>
        \A start \in 1..Messages(box) :
            /\ ~BitmessagesSinceSequenceNumber(mbox, box, start).panic
            /\ BitmessagesSinceSequenceNumber(mbox, box, start).msgs
                   = MessagesAt(mbox, box, start, Messages(box))
            /\ \A end \in start..Messages(box) :
                   /\ ~BitmessagesBySequenceRange(mbox, box, start, end).panic
                   /\ BitmessagesBySequenceRange(mbox, box, start, end).msgs
                          = MessagesAt(mbox, box, start, end)

\* C27: a Refresh that returns an error leaves every cached field (uid
\* list, recent and unseen counts, next uid, last uid) as it was before the
\* call.
C27_FailedRefreshKeepsCache ==
    [][(ret'.op = "Refresh" /\ ret'.err # "") => box' = box]_vars

\* C28: when SaveBitmessage returns an error, for whatever reason, every
\* version stored before the call is still stored under its uid after it.
C28_FailedSaveKeepsVersion ==
    [][(ret'.op = "SaveBitmessage" /\ ret'.err # "") =>
          \A id \in Present(mbox) :
              /\ id \in Present(mbox')
              /\ mbox'.messages[id] = mbox.messages[id]]_vars

\* The sets of one element: a single value, value:*, value:value, *.
OneElementSets ==
    {<<SeqRange(SeqValue(n), max)>> :
        n \in SetValues,
        max \in {SeqNil, SeqLast} \cup {SeqValue(m) : m \in SetValues}}
    \cup {<<SeqRange(SeqLast, SeqNil)>>}

\* C29: on a refreshed mailbox the slices BitmessageSetByUID and
\* BitmessageSetBySequenceNumber return hold no nil element, whatever the
\* set, a single value that names an absent uid included.
C29_SetsHoldNoNil ==
    Refreshed(mbox, box) =>
        \A set \in OneElementSets :
            /\ \A bm \in Elements(BitmessageSetByUID(mbox, box, set)) : ~bm.nil
            /\ \A bm \in Elements(
                       BitmessageSetBySequenceNumber(mbox, box, set).msgs) :
                   ~bm.nil

====
